---- MODULE Spec2Model ----
(***************************************************************************)
(* State-machine model of WebGLLogoParticles (src/src/webglanim.ts): the   *)
(* constructor, the bitmap's onload (createParticles + first animate), the *)
(* host's frame callback (animate), the two pointer handlers and destroy.  *)
(*                                                                         *)
(* JavaScript numbers are modelled in fixed point: a value v is held as    *)
(* the integer v * Scale, a product is divided by Scale and a quotient is  *)
(* multiplied by Scale, both truncating toward zero.  Squared distances    *)
(* are kept in Scale * Scale units so that the comparison with the squared *)
(* radius and the square root of a perfect square are exact.               *)
(***************************************************************************)
EXTENDS Integers, Sequences, FiniteSets, TLC

VARIABLES
    imgSize,        \* logoImage.width, logoImage.height (pixels)
    alpha,          \* alpha byte of the sample pixels of the scaled bitmap
    ctor,           \* "new", "ok" or "aborted" (constructor threw)
    ctorError,      \* message of the Error the constructor threw, or "none"
    imageState,     \* "none", "loading", "loaded", "failed"
    onloadSet,      \* logoImage.onload has been assigned
    listeners,      \* event types with a handler registered on the canvas
    program,        \* "none", "linked", "deleted"
    vertexBuffer,   \* "none", "created", "deleted"
    particles,      \* this.particles
    particleCount,  \* this.particleCount
    sampled,        \* the sample pixels whose alpha createParticles has read
    mouseX, mouseY, isMouseOver,
    animationId,    \* this.animationId
    pendingFrames,  \* ids the host has scheduled and neither fired nor cancelled
    nextFrameId,    \* the id the host's next requestAnimationFrame returns
    steps,          \* number of animate() calls so far
    lastStep,       \* what the last animate() call saw and drew
    lastPointer,    \* last pointer event delivered to a handler
    destroyCalls,   \* number of destroy() calls so far
    stepsAfterDestroy, \* number of animate() calls after the first destroy()
    afterFirst,     \* the state right after the first destroy()
    afterLast       \* the state right after the latest destroy()

vars == <<imgSize, alpha, ctor, ctorError, imageState, onloadSet, listeners,
          program, vertexBuffer, particles, particleCount, sampled, mouseX,
          mouseY, isMouseOver, animationId, pendingFrames, nextFrameId, steps,
          lastStep, lastPointer, destroyCalls, stepsAfterDestroy,
          afterFirst, afterLast>>

----------------------------------------------------------------------------
(* Bounds *)

MaxSteps == 5
MaxDestroy == 2

\* bitmaps whose scaled width and height are whole pixels
ImageSizes == {<<315, 135>>, <<100, 100>>}
\* pixels of the scaled bitmap that may be non-transparent; all others are alpha 0
PixelA == <<10, 20>>
PixelB == <<130, 20>>
SamplePixels == {PixelA, PixelB}
AlphaValues == {0, 128, 129}
AllAlphaValues == 0 .. 255
\* outcomes of (Math.random() * 2 - 1) * 20
ZValues == {-2000, 0, 1999}
\* outcomes of Math.random() * 1.5 + 0.9
SizeValues == {90}
\* e.clientX - rect.left, e.clientY - rect.top
MousePositions == {<<2750, 2750>>, <<5750, 6750>>, <<14750, 2750>>}
GLOutcomes == {"ok", "noContext", "vertexShaderFails", "fragmentShaderFails",
               "linkFails"}

----------------------------------------------------------------------------
(* Fixed-point arithmetic *)

Scale == 100

TDiv(a, b) == IF a >= 0 THEN a \div b ELSE -((-a) \div b)
Mul(a, b) == TDiv(a * b, Scale)
Div(a, b) == TDiv(a * Scale, b)
Min(a, b) == IF a < b THEN a ELSE b

RECURSIVE SqrtSearch(_, _, _)
SqrtSearch(n, lo, hi) ==
    IF lo >= hi THEN lo
    ELSE LET mid == (lo + hi + 1) \div 2
         IN  IF mid * mid <= n THEN SqrtSearch(n, mid, hi)
                               ELSE SqrtSearch(n, lo, mid - 1)

\* Math.sqrt of a squared distance (Scale * Scale units), in Scale units
Sqrt(n) == SqrtSearch(n, 0, 46340)

----------------------------------------------------------------------------
(* Program constants *)

CanvasWidth == 35000
CanvasHeight == 15000
ParkedMouse == -100000
AlphaThreshold == 128
attractionForce == 6
mouseRepelForce == 400
mouseRadius == 12000
friction == 92
DistEpsilon == 10
Half == 50
mouseRadiusSquared == mouseRadius * mouseRadius

----------------------------------------------------------------------------
(* createParticles *)

\* scale = Math.min(canvas.width * 0.9 / logo.width, canvas.height * 0.9 / logo.height)
LogoScale(size) ==
    Min(Div(Mul(CanvasWidth, 90), size[1] * Scale),
        Div(Mul(CanvasHeight, 90), size[2] * Scale))

LogoWidth(size) == Mul(size[1] * Scale, LogoScale(size))
LogoHeight(size) == Mul(size[2] * Scale, LogoScale(size))
OffsetX(size) == TDiv(CanvasWidth - LogoWidth(size), 2)
OffsetY(size) == TDiv(CanvasHeight - LogoHeight(size), 2)

\* the loop bounds: y < logoHeight, x < logoWidth
InLoop(size, px) ==
    /\ px[1] * Scale < LogoWidth(size)
    /\ px[2] * Scale < LogoHeight(size)

\* pixelIndex = (y * logoWidth + x) * 4
PixelIndex(size, px) == (px[2] * TDiv(LogoWidth(size), Scale) + px[1]) * 4

\* imageData.data: RGBA bytes, row after row; only the sample pixels can be
\* non-transparent
PixelData(size, al, idx) ==
    IF \E s \in SamplePixels : InLoop(size, s) /\ PixelIndex(size, s) + 3 = idx
    THEN al[CHOOSE s \in SamplePixels :
                InLoop(size, s) /\ PixelIndex(size, s) + 3 = idx]
    ELSE 0

EmitsParticle_Half(a) == 2 * a > 255

\* if (alpha > 128)
EmitsParticle(a) == a > AlphaThreshold

NewParticle_OriginZ(size, px, z, sz) ==
    [x |-> OffsetX(size) + px[1] * Scale, y |-> OffsetY(size) + px[2] * Scale,
     z |-> z, vx |-> 0, vy |-> 0, vz |-> 0,
     originX |-> OffsetX(size) + px[1] * Scale,
     originY |-> OffsetY(size) + px[2] * Scale,
     originZ |-> z, size |-> sz]

\* this.particles.push({...}); the colour is not modelled
NewParticle(size, px, z, sz) ==
    [x |-> OffsetX(size) + px[1] * Scale, y |-> OffsetY(size) + px[2] * Scale,
     z |-> z, vx |-> 0, vy |-> 0, vz |-> 0,
     originX |-> OffsetX(size) + px[1] * Scale,
     originY |-> OffsetY(size) + px[2] * Scale,
     originZ |-> 0, size |-> sz]

\* the pixels the two loops push a particle for
Emitting(size, al) ==
    {s \in SamplePixels :
        /\ InLoop(size, s)
        /\ EmitsParticle(PixelData(size, al, PixelIndex(size, s) + 3))}

\* the pixels of a set in the order the loops visit them (row by row)
RECURSIVE InLoopOrder(_, _)
InLoopOrder(size, S) ==
    IF S = {} THEN <<>>
    ELSE LET first == CHOOSE s \in S :
                 \A t \in S : PixelIndex(size, s) <= PixelIndex(size, t)
         IN  <<first>> \o InLoopOrder(size, S \ {first})

\* createParticles(): the particle list, given the 2D context's availability and
\* the random depth and size of each pixel's particle
CreateParticles(size, al, ctx2d, zOf, sizeOf) ==
    IF ~ctx2d THEN <<>>
    ELSE LET order == InLoopOrder(size, Emitting(size, al))
         IN  [i \in 1 .. Len(order) |->
                 NewParticle(size, order[i], zOf[order[i]], sizeOf[order[i]])]

----------------------------------------------------------------------------
(* animate: the physics step *)

Spring_ToCanvasOrigin(origin, pos) == Mul(0 - pos, attractionForce)

\* (origin - position) * attractionForce
Spring(origin, pos) == Mul(origin - pos, attractionForce)

\* mouseDx * mouseDx + mouseDy * mouseDy, in Scale * Scale units
DistSquared(p, mx, my) == (p.x - mx) * (p.x - mx) + (p.y - my) * (p.y - my)

\* if (this.isMouseOver) ... if (mouseDistSquared < mouseRadiusSquared)
InRange(p, mx, my, over) == over /\ DistSquared(p, mx, my) < mouseRadiusSquared

Force_Inverted(dist) == Div(dist, mouseRadius)

\* force = (mouseRadius - mouseDist) / mouseRadius
Force(dist) == Div(mouseRadius - dist, mouseRadius)

\* what the mouse interaction adds to vx, vy, vz
Repulsion(p, mx, my, over) ==
    IF InRange(p, mx, my, over)
    THEN LET dist == Sqrt(DistSquared(p, mx, my))
             force == Force(dist)
         IN  <<Mul(Mul(Div(p.x - mx, dist + DistEpsilon), force), mouseRepelForce),
               Mul(Mul(Div(p.y - my, dist + DistEpsilon), force), mouseRepelForce),
               Mul(Mul(force, mouseRepelForce), Half)>>
    ELSE <<0, 0, 0>>

\* one iteration of the particle loop of animate()
StepParticle(p, mx, my, over) ==
    LET rep == Repulsion(p, mx, my, over)
        vx == Mul(p.vx + Spring(p.originX, p.x) + rep[1], friction)
        vy == Mul(p.vy + Spring(p.originY, p.y) + rep[2], friction)
        vz == Mul(p.vz + Mul(Spring(p.originZ, p.z), Half) + rep[3], friction)
    IN  [p EXCEPT !.vx = vx, !.vy = vy, !.vz = vz,
                  !.x = p.x + vx, !.y = p.y + vy, !.z = p.z + vz]

----------------------------------------------------------------------------
(* The state right after a destroy() call *)

Snapshot(pend, lis, prog, buf) ==
    [taken |-> TRUE, pendingFrames |-> pend, listeners |-> lis, program |-> prog,
     vertexBuffer |-> buf, particles |-> particles,
     particleCount |-> particleCount, mouseX |-> mouseX, mouseY |-> mouseY,
     isMouseOver |-> isMouseOver]

NoSnapshot ==
    [taken |-> FALSE, pendingFrames |-> {}, listeners |-> {}, program |-> "none",
     vertexBuffer |-> "none", particles |-> <<>>, particleCount |-> 0,
     mouseX |-> ParkedMouse, mouseY |-> ParkedMouse, isMouseOver |-> FALSE]

NoStep ==
    [ran |-> FALSE, over |-> FALSE, mx |-> ParkedMouse, my |-> ParkedMouse,
     pointer |-> "none", before |-> <<>>, drawn |-> 0]

----------------------------------------------------------------------------
(* Initial state: nothing constructed yet; the bitmap is the input *)

\* the fields as their initializers leave them, before the constructor body
InitWidget ==
    /\ ctor = "new"
    /\ ctorError = "none"
    /\ imageState = "none"
    /\ onloadSet = FALSE
    /\ listeners = {}
    /\ program = "none"
    /\ vertexBuffer = "none"
    /\ particles = <<>>
    /\ particleCount = 0
    /\ sampled = {}
    /\ mouseX = ParkedMouse
    /\ mouseY = ParkedMouse
    /\ isMouseOver = FALSE
    /\ animationId = 0
    /\ pendingFrames = {}
    /\ nextFrameId = 1
    /\ steps = 0
    /\ lastStep = NoStep
    /\ lastPointer = "none"
    /\ destroyCalls = 0
    /\ stepsAfterDestroy = 0
    /\ afterFirst = NoSnapshot
    /\ afterLast = NoSnapshot

Init ==
    /\ imgSize \in ImageSizes
    /\ alpha \in [SamplePixels -> AlphaValues]
    /\ InitWidget

\* one pixel of the bitmap takes every alpha byte, the rest is transparent
InitAlpha ==
    /\ imgSize = <<315, 135>>
    /\ alpha \in {[s \in SamplePixels |-> IF s = PixelA THEN a ELSE 0] :
                      a \in AllAlphaValues}
    /\ InitWidget

----------------------------------------------------------------------------
(* constructor, initWebGL, createShader, createProgram, setupEventListeners *)

Construct_OnloadFirst(outcome) ==
    /\ ctor' = IF outcome = "ok" THEN "ok" ELSE "aborted"
    /\ ctorError' = CASE outcome = "ok" -> "none"
                      [] outcome = "noContext" -> "WebGL2 not supported"
                      [] outcome = "linkFails" -> "Program linking failed"
                      [] OTHER -> "Shader compilation failed"
    /\ imageState' = IF outcome = "noContext" THEN "none" ELSE "loading"
    /\ program' = IF outcome = "ok" THEN "linked" ELSE "none"
    /\ vertexBuffer' = IF outcome = "ok" THEN "created" ELSE "none"
    /\ onloadSet' = (outcome # "noContext")
    /\ listeners' = IF outcome = "ok" THEN {"mousemove", "mouseout"} ELSE {}

\* getContext fails: throws before the Image exists.  A shader or the program
\* fails: createShader / createProgram throws inside initWebGL, before the buffer
\* is created, before onload is assigned and before setupEventListeners runs.
Construct(outcome) ==
    /\ ctor' = IF outcome = "ok" THEN "ok" ELSE "aborted"
    /\ ctorError' = CASE outcome = "ok" -> "none"
                      [] outcome = "noContext" -> "WebGL2 not supported"
                      [] outcome = "linkFails" -> "Program linking failed"
                      [] OTHER -> "Shader compilation failed"
    /\ imageState' = IF outcome = "noContext" THEN "none" ELSE "loading"
    /\ program' = IF outcome = "ok" THEN "linked" ELSE "none"
    /\ vertexBuffer' = IF outcome = "ok" THEN "created" ELSE "none"
    /\ onloadSet' = (outcome = "ok")
    /\ listeners' = IF outcome = "ok" THEN {"mousemove", "mouseout"} ELSE {}

Constructor ==
    /\ ctor = "new"
    /\ \E outcome \in GLOutcomes : Construct(outcome)
    /\ UNCHANGED <<imgSize, alpha, particles, particleCount, sampled, mouseX, mouseY,
                   isMouseOver, animationId, pendingFrames, nextFrameId, steps,
                   lastStep, lastPointer, destroyCalls, stepsAfterDestroy,
                   afterFirst, afterLast>>

----------------------------------------------------------------------------
(* animate *)

\* animate() on the particle list ps with particleCount n; pend is the set of
\* frames pending when it is entered, ids the frames it requests
AnimateWith(ps, n, pend, ids) ==
    /\ particles' = [i \in 1 .. Len(ps) |->
                        IF i <= n THEN StepParticle(ps[i], mouseX, mouseY, isMouseOver)
                                  ELSE ps[i]]
    /\ particleCount' = n
    /\ lastStep' = [ran |-> TRUE, over |-> isMouseOver, mx |-> mouseX,
                    my |-> mouseY, pointer |-> lastPointer, before |-> ps,
                    drawn |-> n]
    /\ steps' = steps + 1
    /\ stepsAfterDestroy' =
           IF destroyCalls > 0 THEN stepsAfterDestroy + 1 ELSE stepsAfterDestroy
    /\ pendingFrames' = pend \cup ids
    /\ animationId' = IF ids = {} THEN animationId
                      ELSE CHOOSE i \in ids : \A j \in ids : j <= i
    /\ nextFrameId' = nextFrameId + Cardinality(ids)

Animate_StallsWhenEmpty(ps, n, pend) ==
    AnimateWith(ps, n, pend, IF n > 0 THEN {nextFrameId} ELSE {})

Animate_SchedulesTwice(ps, n, pend) ==
    AnimateWith(ps, n, pend, {nextFrameId, nextFrameId + 1})

\* physics loop, draw, this.animationId = requestAnimationFrame(...)
Animate(ps, n, pend) == AnimateWith(ps, n, pend, {nextFrameId})

\* logoImage.onload: createParticles(); animate().  Without a handler the load
\* has no effect on the widget.
ImageLoaded ==
    /\ imageState = "loading"
    /\ imageState' = "loaded"
    /\ IF onloadSet
       THEN \E ctx2d \in BOOLEAN, zOf \in [SamplePixels -> ZValues],
               sizeOf \in [SamplePixels -> SizeValues] :
                LET ps == CreateParticles(imgSize, alpha, ctx2d, zOf, sizeOf)
                IN  /\ sampled' = IF ctx2d
                                   THEN {s \in SamplePixels : InLoop(imgSize, s)}
                                   ELSE {}
                    /\ Animate(ps, IF ctx2d THEN Len(ps) ELSE particleCount,
                               pendingFrames)
       ELSE UNCHANGED <<particles, particleCount, sampled, lastStep, steps,
                        stepsAfterDestroy, pendingFrames, animationId,
                        nextFrameId>>
    /\ UNCHANGED <<imgSize, alpha, ctor, ctorError, onloadSet, listeners, program,
                   vertexBuffer, mouseX, mouseY, isMouseOver, lastPointer,
                   destroyCalls, afterFirst, afterLast>>

\* the bitmap fails to load: no onerror handler, nothing happens
ImageFailed ==
    /\ imageState = "loading"
    /\ imageState' = "failed"
    /\ UNCHANGED <<imgSize, alpha, ctor, ctorError, onloadSet, listeners, program,
                   vertexBuffer, particles, particleCount, sampled, mouseX,
                   mouseY, isMouseOver, animationId, pendingFrames, nextFrameId,
                   steps, lastStep, lastPointer, destroyCalls, stepsAfterDestroy,
                   afterFirst, afterLast>>

\* the host fires a pending frame: () => this.animate()
Frame ==
    /\ steps < MaxSteps
    /\ \E id \in pendingFrames :
           Animate(particles, particleCount, pendingFrames \ {id})
    /\ UNCHANGED <<imgSize, alpha, ctor, ctorError, imageState, onloadSet,
                   listeners, program, vertexBuffer, sampled, mouseX, mouseY,
                   isMouseOver, lastPointer, destroyCalls, afterFirst, afterLast>>

----------------------------------------------------------------------------
(* pointer handlers *)

MouseMoveHandler(pos) ==
    /\ mouseX' = pos[1]
    /\ mouseY' = pos[2]
    /\ isMouseOver' = TRUE

MouseMove ==
    /\ "mousemove" \in listeners
    /\ \E pos \in MousePositions : MouseMoveHandler(pos)
    /\ lastPointer' = "move"
    /\ UNCHANGED <<imgSize, alpha, ctor, ctorError, imageState, onloadSet,
                   listeners, program, vertexBuffer, particles, particleCount,
                   sampled, animationId, pendingFrames, nextFrameId, steps, lastStep,
                   destroyCalls, stepsAfterDestroy, afterFirst, afterLast>>

MouseOutHandler_KeepsFlag ==
    /\ isMouseOver' = isMouseOver
    /\ mouseX' = mouseX
    /\ mouseY' = mouseY

MouseOutHandler ==
    /\ isMouseOver' = FALSE
    /\ mouseX' = ParkedMouse
    /\ mouseY' = ParkedMouse

MouseOut ==
    /\ "mouseout" \in listeners
    /\ MouseOutHandler
    /\ lastPointer' = "leave"
    /\ UNCHANGED <<imgSize, alpha, ctor, ctorError, imageState, onloadSet,
                   listeners, program, vertexBuffer, particles, particleCount,
                   sampled, animationId, pendingFrames, nextFrameId, steps, lastStep,
                   destroyCalls, stepsAfterDestroy, afterFirst, afterLast>>

----------------------------------------------------------------------------
(* destroy *)

\* cancelAnimationFrame(this.animationId)
CancelAnimationFrame(pend, id) == pend \ {id}

Destroy ==
    /\ ctor = "ok"
    /\ destroyCalls < MaxDestroy
    /\ pendingFrames' = CancelAnimationFrame(pendingFrames, animationId)
    /\ program' = "deleted"
    /\ vertexBuffer' = "deleted"
    /\ listeners' = listeners \ {"mousemove", "mouseout"}
    /\ destroyCalls' = destroyCalls + 1
    /\ afterLast' = Snapshot(pendingFrames', listeners', program', vertexBuffer')
    /\ afterFirst' = IF destroyCalls = 0 THEN afterLast' ELSE afterFirst
    /\ UNCHANGED <<imgSize, alpha, ctor, ctorError, imageState, onloadSet,
                   particles, particleCount, sampled, mouseX, mouseY,
                   isMouseOver, animationId, nextFrameId, steps, lastStep,
                   lastPointer, stepsAfterDestroy>>

----------------------------------------------------------------------------

Next ==
    \/ Constructor
    \/ ImageLoaded
    \/ ImageFailed
    \/ Frame
    \/ MouseMove
    \/ MouseOut
    \/ Destroy

Spec == Init /\ [][Next]_vars

\* construction and the bitmap's load only
NextBuilder ==
    \/ Constructor
    \/ ImageLoaded
    \/ ImageFailed

SpecAlpha == InitAlpha /\ [][NextBuilder]_vars

----------------------------------------------------------------------------
(* Properties *)

\* createParticles() has run
Created == imageState = "loaded" /\ onloadSet

\* velocity after a step in which only the spring and friction act
SpringOnlyVelocity(p) ==
    <<Mul(p.vx + Mul(p.originX - p.x, attractionForce), friction),
      Mul(p.vy + Mul(p.originY - p.y, attractionForce), friction),
      Mul(p.vz + Mul(Mul(p.originZ - p.z, attractionForce), Half), friction)>>

Velocity(p) == <<p.vx, p.vy, p.vz>>

AtRest(ps) ==
    \A i \in 1 .. Len(ps) :
        /\ ps[i].x = ps[i].originX /\ ps[i].y = ps[i].originY
        /\ ps[i].z = ps[i].originZ
        /\ Velocity(ps[i]) = <<0, 0, 0>>

Transparent == \A s \in SamplePixels : alpha[s] = 0

\* the canvas position of a pixel of the scaled bitmap
CanvasPos(px) ==
    <<OffsetX(imgSize) + px[1] * Scale, OffsetY(imgSize) + px[2] * Scale>>

ParticlesAt(px) ==
    {i \in 1 .. Len(particles) :
        <<particles[i].originX, particles[i].originY>> = CanvasPos(px)}

\* C1: once destroy() has been called, no animate step runs and no frame is
\* pending (as the claim states it; the code violates it when destroy() comes
\* before the bitmap's onload)
C1_NoStepAfterDestroy ==
    destroyCalls > 0 => (stepsAfterDestroy = 0 /\ pendingFrames = {})

\* C2: after a second or later destroy() the state (pending frame, listeners,
\* program, buffer, particles, pointer state) is what it was after the first
\* (as the claim states it; an onload between the two calls breaks it)
C2_DestroyIdempotent ==
    destroyCalls >= 2 => afterLast = afterFirst

\* C3: originZ is 0 for every particle in every state, and once createParticles
\* has run no step changes the number of particles or any particle's origin
C3_OriginsFixed ==
    /\ [](\A i \in 1 .. Len(particles) : particles[i].originZ = 0)
    /\ [][Created =>
            /\ Len(particles') = Len(particles)
            /\ \A i \in 1 .. Len(particles) :
                   /\ particles'[i].originX = particles[i].originX
                   /\ particles'[i].originY = particles[i].originY
                   /\ particles'[i].originZ = particles[i].originZ]_vars

C3_Witness ==
    /\ steps >= 2
    /\ destroyCalls >= 1
    /\ lastPointer = "leave"
    /\ \E i \in 1 .. Len(particles) : particles[i].x # particles[i].originX

\* C4: an animate step that starts with every particle at its origin with zero
\* velocity, the pointer not over the surface, leaves every particle as it was
C4_RestIsFixedPoint ==
    (lastStep.ran /\ ~lastStep.over /\ AtRest(lastStep.before))
        => particles = lastStep.before

C4_Witness ==
    /\ steps >= 3
    /\ lastStep.ran /\ ~lastStep.over
    /\ Len(lastStep.before) = 2
    /\ AtRest(lastStep.before)

C7_RepulsionBoundary ==
    (lastStep.ran /\ lastStep.over) =>
        \A i \in 1 .. Len(particles) :
            LET b == lastStep.before[i]
                d2 == DistSquared(b, lastStep.mx, lastStep.my)
                v == SpringOnlyVelocity(b)
            IN  /\ d2 = mouseRadius * mouseRadius => Velocity(particles[i]) = v
                /\ d2 = 0 =>
                       /\ particles[i].vx = v[1]
                       /\ particles[i].vy = v[2]
                       /\ particles[i].vz =
                              Mul(b.vz
                                  + Mul(Mul(b.originZ - b.z, attractionForce), Half)
                                  + Mul(mouseRepelForce, Half), friction)

C7_Witness ==
    /\ lastStep.ran /\ lastStep.over
    /\ \E i, j \in 1 .. Len(lastStep.before) :
           /\ DistSquared(lastStep.before[i], lastStep.mx, lastStep.my) = 0
           /\ DistSquared(lastStep.before[j], lastStep.mx, lastStep.my)
                  = mouseRadius * mouseRadius

\* C8: a widget whose construction threw has an error, no listener, no
\* particle, no pending frame and has never run animate
C8_AbortedIsInert ==
    ctor = "aborted" =>
        /\ ctorError # "none"
        /\ listeners = {}
        /\ particles = <<>>
        /\ pendingFrames = {}
        /\ steps = 0

C8_Witness ==
    /\ ctor = "aborted"
    /\ ctorError = "Shader compilation failed"
    /\ imageState = "loaded"

\* C9: for a fully transparent bitmap there is never a particle, and every
\* animate step draws zero points and leaves its successor frame pending
C9_TransparentBitmap ==
    /\ [](Transparent => particles = <<>>)
    /\ [][(Transparent /\ steps' = steps + 1) =>
            /\ particles' = <<>>
            /\ lastStep'.drawn = 0
            /\ animationId' \in pendingFrames'
            /\ animationId' # animationId]_vars

C9_Witness ==
    /\ Transparent
    /\ sampled # {}
    /\ steps >= 3

\* C10: at most one frame is pending; from onload until destroy() exactly one
\* is, the one animationId names; every animate call requested one frame
C10_OneFramePending ==
    /\ Cardinality(pendingFrames) <= 1
    /\ nextFrameId = steps + 1
    /\ lastStep.ran = (steps > 0)
    /\ (Created /\ destroyCalls = 0) => pendingFrames = {animationId}

C10_Witness ==
    /\ Created
    /\ destroyCalls = 0
    /\ steps >= 3
    /\ pendingFrames = {animationId}

====
